---- MODULE Spec2Model ----
(***************************************************************************)
(* CRSFReceiver (src/src/ELRS_Serial.py): the CRC8 engine, the frame       *)
(* synchronizer of update(), the frame validator, the payload decoders and *)
(* the battery telemetry encoder, as a state machine over the receiver's   *)
(* fields.  Bytes are the integers 0..255; a Python bytes/bytearray value  *)
(* is a sequence of them (index i of Python is index i+1 here).            *)
(* The environment owns the bytes that are still to arrive (wire) and      *)
(* whether the port can be opened, read and written.                       *)
(***************************************************************************)
EXTENDS Integers, Sequences, FiniteSets, TLC

VARIABLES
    input_buffer,   \* self.input_buffer
    channels,       \* self.channels: 1..16 -> microseconds
    link_stats,     \* self.link_stats: None or a LinkStats record
    raised,         \* what the last call raised to its caller ("none" if it returned)
    serial,         \* self.serial: is_open, and (environment) whether the port is usable
    op,             \* observer: the caller's last call, whether a transport failure
                    \* occurred in it, whether it called _connect() with success
    tx,             \* the frames send_battery_telemetry has handed to serial.write, in order
    wire,           \* environment: bytes sent by the peer, not yet read by update()
    repeat,         \* environment: the frame the peer repeats for ever (<<>>: a finite transmission)
    headPos,        \* observer: where the buffer head stands in the repeated frame (< 0: still in the noise)
    synced,         \* observer: a frame of the peer has been extracted at its own boundary and validated
    received,       \* observer: every byte update() has read so far
    log,            \* observer: the iterations the synchronizer loop has run
    mark            \* observer: Len(log) when the last update() started

vars == <<input_buffer, channels, link_stats, raised, serial, op, tx, wire, repeat,
          headPos, synced, received, log, mark>>

----------------------------------------------------------------------------
(* Program constants *)

CRSF_SYNC == 200
CRSF_TELEMETRY_SYNC == 200
BATTERY_SENSOR == 8
LINK_STATISTICS == 20
RC_CHANNELS_PACKED == 22
MaxFrameLen == 64
MinFrameLen == 4
NumChannels == 16
ChannelMask == 2047
DefaultChannel == 1500
\* Python's None in an Optional[LinkStats] field (a record, to compare with records)
None == [absent |-> TRUE]

----------------------------------------------------------------------------
(* Python's integer operators on non-negative integers *)

RECURSIVE BitXor(_, _)
BitXor(a, b) ==
    IF a = 0 THEN b
    ELSE IF b = 0 THEN a
    ELSE (((a % 2) + (b % 2)) % 2) + 2 * BitXor(a \div 2, b \div 2)

RECURSIVE BitOr(_, _)
BitOr(a, b) ==
    IF a = 0 THEN b
    ELSE IF b = 0 THEN a
    ELSE (IF a % 2 = 1 \/ b % 2 = 1 THEN 1 ELSE 0) + 2 * BitOr(a \div 2, b \div 2)

RECURSIVE BitAnd(_, _)
BitAnd(a, b) ==
    IF a = 0 \/ b = 0 THEN 0
    ELSE (IF a % 2 = 1 /\ b % 2 = 1 THEN 1 ELSE 0) + 2 * BitAnd(a \div 2, b \div 2)

Pow2(n) == 2 ^ n

\* F applied to the value of e (e is evaluated once, before F's body)
Eager(e, F(_)) == CHOOSE r \in {F(v) : v \in {e}} : TRUE

\* data[lo:hi] of Python for 0 <= lo, hi <= len(data)
Slice(data, lo, hi) == SubSeq(data, lo + 1, hi)

----------------------------------------------------------------------------
(* CRC8 engine *)

\* a shift with the polynomial 0x07 of the plain CRC-8
Crc8Shift_Poly07(crc) ==
    IF BitAnd(crc, 128) # 0 THEN BitXor(crc * 2, 7) ELSE crc * 2

\* a shift that leaves the polynomial out
Crc8Shift_NoPolynomial(crc) == crc * 2

\* one of the 8 shift iterations: the accumulator is not masked here
Crc8Shift(crc) ==
    IF BitAnd(crc, 128) # 0 THEN BitXor(crc * 2, 213) ELSE crc * 2

\* the accumulator after n of the shift iterations
RECURSIVE Crc8Iterate(_, _)
Crc8Iterate(crc, n) == IF n = 0 THEN crc ELSE Crc8Shift(Crc8Iterate(crc, n - 1))

\* lines 71-76 for each value crc ^ a can take (crc is a masked result, a a byte)
Crc8Table == [x \in 0..255 |-> BitAnd(Crc8Iterate(x, 8), 255)]

crc8_dvb_s2(crc, a) == Crc8Table[BitXor(crc, a)]

\* the loop of _crc8_data over the bytes data[lo..hi], crc carried along; the bytes
\* are taken in order, the first half of the range and then the second
RECURSIVE Crc8Range(_, _, _, _)
Crc8Range(crc, data, lo, hi) ==
    IF lo > hi THEN crc
    ELSE IF lo = hi THEN crc8_dvb_s2(crc, data[lo])
    ELSE Eager(Crc8Range(crc, data, lo, (lo + hi) \div 2),
               LAMBDA c : Crc8Range(c, data, ((lo + hi) \div 2) + 1, hi))

crc8_data(data) == Eager(data, LAMBDA d : Crc8Range(0, d, 1, Len(d)))

\* a validator that accepts every candidate
validate_frame_AcceptAll(frame) == TRUE

\* frame[2:-1] against frame[-1]
validate_frame(frame) ==
    crc8_data(Slice(frame, 2, Len(frame) - 1)) = frame[Len(frame)]

----------------------------------------------------------------------------
(* Payload decoders.  Each returns the new value and what it raised.       *)

\* round(value * 0.62 + 881) in place of int(...)
ToMicroseconds_Rounded(value) == (62 * value + 88100 + 50) \div 100

\* int(value * 0.62 + 881): with IEEE doubles this is the floor of
\* (62*value + 88100)/100 for every value in 0..2047
ToMicroseconds(value) == (62 * value + 88100) \div 100

\* the three-byte little-endian word of one loop iteration (lines 100-104)
\* a word assembled from two bytes only
RawWord_TwoBytes(channel_data, byte_index) ==
    IF byte_index + 1 < Len(channel_data)
    THEN BitOr(channel_data[byte_index + 1], channel_data[byte_index + 2] * Pow2(8))
    ELSE channel_data[byte_index + 1]

RawWord(channel_data, byte_index) ==
    LET r0 == channel_data[byte_index + 1]
        r1 == IF byte_index + 1 < Len(channel_data)
              THEN BitOr(r0, channel_data[byte_index + 2] * Pow2(8)) ELSE r0
    IN  IF byte_index + 2 < Len(channel_data)
        THEN BitOr(r1, channel_data[byte_index + 3] * Pow2(16)) ELSE r1

ChannelValue(channel_data, i) ==
    LET bits == i * 11
    IN  BitAnd(RawWord(channel_data, bits \div 8) \div Pow2(bits % 8), ChannelMask)

\* the loop of _decode_channels from iteration i on; channel_data[byte_index]
\* past the end raises IndexError and leaves the channels assigned so far
RECURSIVE DecodeChannelsFrom(_, _, _)
DecodeChannelsFrom(channel_data, ch, i) ==
    IF i = NumChannels THEN [channels |-> ch, err |-> "none"]
    ELSE IF (i * 11) \div 8 >= Len(channel_data)
    THEN [channels |-> ch, err |-> "IndexError"]
    ELSE Eager([ch EXCEPT ![i + 1] = ToMicroseconds(ChannelValue(channel_data, i))],
               LAMBDA assigned : DecodeChannelsFrom(channel_data, assigned, i + 1))

decode_channels(data, ch) == DecodeChannelsFrom(Slice(data, 3, Len(data)), ch, 0)

\* the SNR byte taken as unsigned
SignedByte_Unsigned(b) == b

SignedByte(b) == IF b < 128 THEN b ELSE b - 256

\* data[6] past the end raises IndexError before link_stats is assigned
decode_link_stats(data, ls) ==
    IF Len(data) < 7 THEN [link_stats |-> ls, err |-> "IndexError"]
    ELSE [link_stats |-> [rssi1 |-> -1 * data[4], rssi2 |-> -1 * data[5],
                          link_quality |-> data[6], snr |-> SignedByte(data[7])],
          err |-> "none"]

\* a dispatcher whose last branch is an else: every other type decodes channels
handle_packet_ElseChannels(packet_type, data, ch, ls) ==
    IF packet_type = LINK_STATISTICS
    THEN LET d == decode_link_stats(data, ls)
         IN  [channels |-> ch, link_stats |-> d.link_stats, err |-> d.err]
    ELSE LET d == decode_channels(data, ch)
         IN  [channels |-> d.channels, link_stats |-> ls, err |-> d.err]

handle_packet(packet_type, data, ch, ls) ==
    IF packet_type = RC_CHANNELS_PACKED
    THEN LET d == decode_channels(data, ch)
         IN  [channels |-> d.channels, link_stats |-> ls, err |-> d.err]
    ELSE IF packet_type = LINK_STATISTICS
    THEN LET d == decode_link_stats(data, ls)
         IN  [channels |-> ch, link_stats |-> d.link_stats, err |-> d.err]
    ELSE [channels |-> ch, link_stats |-> ls, err |-> "none"]

----------------------------------------------------------------------------
(* update(): the frame synchronizer loop.  A loop state is the buffer and   *)
(* the decoded state, what has been raised, and the iterations run so far.  *)

\* the length byte taken as the total
expected_len_of_NoHeader(length) == length

expected_len_of(length) == length + 2

\* a length check with the lower limit only
LengthRejected_NoUpperBound(expected_len) == expected_len < MinFrameLen

LengthRejected(expected_len) == expected_len > MaxFrameLen \/ expected_len < MinFrameLen

IsSync(b) == b = CRSF_SYNC

\* a resynchronization that throws the whole buffer away instead of one byte
DropHead_ClearBuffer(st, why) ==
    [st EXCEPT !.buf = <<>>,
               !.steps = Append(st.steps,
                   [kind |-> why, bytes |-> st.buf, valid |-> FALSE,
                    ch_pre |-> st.channels, ch_post |-> st.channels,
                    ls_pre |-> st.link_stats, ls_post |-> st.link_stats,
                    err |-> "none", rest |-> <<>>])]

\* self.input_buffer.pop(0), at line 185 (why = "nosync") or 192 ("badlen")
DropHead(st, why) ==
    [st EXCEPT !.buf = Tail(st.buf),
               !.steps = Append(st.steps,
                   [kind |-> why, bytes |-> <<Head(st.buf)>>, valid |-> FALSE,
                    ch_pre |-> st.channels, ch_post |-> st.channels,
                    ls_pre |-> st.link_stats, ls_post |-> st.link_stats,
                    err |-> "none", rest |-> Tail(st.buf)])]

\* an extraction that takes one byte more from the buffer than the packet holds
ExtractPacket_DropsOneMore(st, expected_len) ==
    LET packet == Slice(st.buf, 0, expected_len)
        rest == Slice(st.buf, expected_len + 1, Len(st.buf))
        ok == validate_frame(packet)
        handled == IF ok THEN handle_packet(packet[3], packet, st.channels, st.link_stats)
                   ELSE [channels |-> st.channels, link_stats |-> st.link_stats,
                         err |-> "none"]
    IN  Eager(handled, LAMBDA h :
            [buf |-> rest, channels |-> h.channels, link_stats |-> h.link_stats,
             err |-> h.err,
             steps |-> Append(st.steps,
                 [kind |-> "frame", bytes |-> packet, valid |-> ok,
                  ch_pre |-> st.channels, ch_post |-> h.channels,
                  ls_pre |-> st.link_stats, ls_post |-> h.link_stats,
                  err |-> h.err, rest |-> rest])])

\* lines 196-200: the packet leaves the buffer, then is validated and handled
ExtractPacket(st, expected_len) ==
    LET packet == Slice(st.buf, 0, expected_len)
        rest == Slice(st.buf, expected_len, Len(st.buf))
        ok == validate_frame(packet)
        handled == IF ok THEN handle_packet(packet[3], packet, st.channels, st.link_stats)
                   ELSE [channels |-> st.channels, link_stats |-> st.link_stats,
                         err |-> "none"]
    IN  Eager(handled, LAMBDA h :
            [buf |-> rest, channels |-> h.channels, link_stats |-> h.link_stats,
             err |-> h.err,
             steps |-> Append(st.steps,
                 [kind |-> "frame", bytes |-> packet, valid |-> ok,
                  ch_pre |-> st.channels, ch_post |-> h.channels,
                  ls_pre |-> st.link_stats, ls_post |-> h.link_stats,
                  err |-> h.err, rest |-> rest])])

\* the while loop of lines 183-202; an exception leaves it at once
RECURSIVE SyncLoop(_)
SyncLoop(st) ==
    IF st.err # "none" \/ ~(Len(st.buf) > 2) THEN st
    ELSE IF ~IsSync(st.buf[1])
    THEN Eager(DropHead(st, "nosync"), LAMBDA next : SyncLoop(next))
    ELSE LET expected_len == expected_len_of(st.buf[2])
         IN  IF LengthRejected(expected_len)
             THEN Eager(DropHead(st, "badlen"), LAMBDA next : SyncLoop(next))
             ELSE IF Len(st.buf) >= expected_len
             THEN Eager(ExtractPacket(st, expected_len), LAMBDA next : SyncLoop(next))
             ELSE st

\* update() on a receiver holding (buf, ch, ls) when the port has `chunk` waiting
update(buf, ch, ls, chunk) ==
    SyncLoop([buf |-> IF Len(chunk) > 0 THEN buf \o chunk ELSE buf,
              channels |-> ch, link_stats |-> ls, err |-> "none", steps |-> <<>>])

----------------------------------------------------------------------------
(* send_battery_telemetry.  voltage and current are decimal numbers given  *)
(* in hundredths (1180 is 11.8): int(x * 10) of such a float x is the      *)
(* floor of hundredths/10 for every value the 16-bit field can hold.       *)

ScaleTenths(hundredths) == hundredths \div 10

FitsH(x) == 0 <= x /\ x <= 65535
FitsB(x) == 0 <= x /\ x <= 255

\* the two bytes in little-endian order
PackH_LittleEndian(x) == <<x % 256, x \div 256>>

\* struct.pack('>H', x): big-endian, two bytes
PackH(x) == <<x \div 256, x % 256>>

\* struct.pack('>HHHB', ...) of lines 144-149
BatteryPayload(voltage_scaled, current_scaled, mah, remaining_percent) ==
    PackH(voltage_scaled) \o PackH(current_scaled) \o PackH(mah) \o <<remaining_percent>>

\* an encoder that takes the CRC of the whole frame, sync and length included
BuildFrame_CrcFromStart(type, payload) ==
    LET frame == <<CRSF_TELEMETRY_SYNC, Len(payload) + 2, type>> \o payload
    IN  Append(frame, crc8_data(frame))

\* lines 152-161: header, payload, CRC of frame[2:]
BuildFrame(type, payload) ==
    LET frame == <<CRSF_TELEMETRY_SYNC, Len(payload) + 2, type>> \o payload
    IN  Append(frame, crc8_data(Slice(frame, 2, Len(frame))))

BatteryFrame(voltage, current, mah, remaining_percent) ==
    BuildFrame(BATTERY_SENSOR,
        BatteryPayload(ScaleTenths(voltage), ScaleTenths(current), mah, remaining_percent))

----------------------------------------------------------------------------
(* The environment: what the peer transmits.                               *)

MaxFrames == 2      \* frames per multi-frame transmission
MaxNoise == 2       \* bytes of noise in front of a transmission
MaxWrites == 1      \* telemetry frames written per run

Fill(b, n) == [i \in 1..n |-> b]

\* a frame whose CRC byte has its lowest bit flipped
Corrupt(frame) == [frame EXCEPT ![Len(frame)] = BitXor(@, 1)]

RcFrames ==
    {BuildFrame(RC_CHANNELS_PACKED, Fill(b, n)) : b \in {0, 255}, n \in {0, 19, 20, 21, 22}}

LsFrames ==
    {BuildFrame(LINK_STATISTICS, <<a, 60, q, s>>) :
        a \in {0, 50}, q \in {0, 90, 100, 101, 255}, s \in {10, 127, 128, 200}}
    \cup {BuildFrame(LINK_STATISTICS, Fill(7, n)) : n \in {0, 2, 3, 10}}

OtherFrames ==
    {BuildFrame(BATTERY_SENSOR, <<0, 118, 0, 0, 0, 0, 100>>),
     BuildFrame(153, <<1>>), BuildFrame(2, <<CRSF_SYNC, 6, 3>>)}

\* a frame of the greatest length the synchronizer accepts: 64 bytes
LongFrame == BuildFrame(153, Fill(1, MaxFrameLen - 4))

ValidFrames == RcFrames \cup LsFrames \cup OtherFrames \cup {LongFrame}

\* the frames that make up the multi-frame and the noisy transmissions
CoreFrames ==
    {BuildFrame(LINK_STATISTICS, <<50, 60, 90, 10>>),
     BuildFrame(RC_CHANNELS_PACKED, <<>>),
     BuildFrame(153, <<1>>),
     Corrupt(BuildFrame(LINK_STATISTICS, <<51, 61, 91, 11>>))}

NoiseBytes == {0, 2, CRSF_SYNC}

RECURSIVE SeqsUpTo(_, _)
SeqsUpTo(S, n) ==
    IF n = 0 THEN {<<>>}
    ELSE LET shorter == SeqsUpTo(S, n - 1)
         IN  shorter \cup {Append(q, x) : q \in shorter, x \in S}

RECURSIVE Flatten(_)
Flatten(fs) == IF fs = <<>> THEN <<>> ELSE Head(fs) \o Flatten(Tail(fs))

\* the bytes a run of loop iterations took from the buffer head, in order
StepBytes(steps) == Flatten([i \in DOMAIN steps |-> steps[i].bytes])

Streams ==
    ValidFrames
    \cup {Corrupt(f) : f \in ValidFrames}
    \cup {Flatten(fs) : fs \in SeqsUpTo(CoreFrames, MaxFrames)}
    \cup {noise \o f : noise \in SeqsUpTo(NoiseBytes, MaxNoise), f \in CoreFrames}
    \cup {<<CRSF_SYNC, CRSF_SYNC, 2>> \o f : f \in CoreFrames}
    \cup {<<CRSF_SYNC, MaxFrameLen - 1>> \o f : f \in CoreFrames}

\* sixteen 11-bit fields packed little-endian into 22 bytes, as the peer packs them:
\* byte j holds the bits 8j..8j+7 of the fields laid end to end
PackedByte(vals, j) ==
    LET f == (8 * j) \div 11
        o == (8 * j) % 11
        next == IF f + 2 <= NumChannels THEN vals[f + 2] ELSE 0
    IN  ((vals[f + 1] \div Pow2(o)) + next * Pow2(11 - o)) % 256

PackFields(vals) == Eager(vals, LAMBDA v : [j \in 1..22 |-> PackedByte(v, j - 1)])

\* a full RC frame: channel 1 carries raw, the others raw shifted by multiples of 129
RampFrame(raw) ==
    BuildFrame(RC_CHANNELS_PACKED,
               PackFields([i \in 1..NumChannels |-> (raw + 129 * (i - 1)) % (ChannelMask + 1)]))

\* a full RC frame whose sixteen fields all carry v
UniformFrame(v) ==
    BuildFrame(RC_CHANNELS_PACKED, PackFields([i \in 1..NumChannels |-> v]))

\* what the caller passes to send_battery_telemetry (voltage, current in hundredths)
VoltageInputs == {1180, 655359, 655360}
CurrentInputs == {0, 655359}
MahInputs == {0, 65535}
PercentInputs == {100, 255}

\* frames the peer repeats for ever: two that hold the sync value only as their first
\* byte, and two whose payload holds a sync byte followed by an in-range length
LiveFrames ==
    {BuildFrame(LINK_STATISTICS, <<50, 60, 90, 10>>),
     BuildFrame(153, <<1>>),
     BuildFrame(2, <<CRSF_SYNC, 6, 3>>),
     BuildFrame(2, <<CRSF_SYNC, 6, 3, 4>>)}

----------------------------------------------------------------------------
(* The state machine *)

\* a record of the caller's last call
Called(name, failed, connected) == [name |-> name, failed |-> failed, connected |-> connected]

\* a _connect that lets the transport's exception through unconverted
connect_Unconverted(usable) ==
    IF usable THEN [is_open |-> TRUE, err |-> "none"]
    ELSE [is_open |-> FALSE, err |-> "SerialException"]

\* _connect, lines 55-66: serial.Serial(...) opens the port or raises
\* SerialException, which is raised on as ConnectionError
connect(usable) ==
    IF usable THEN [is_open |-> TRUE, err |-> "none"]
    ELSE [is_open |-> FALSE, err |-> "ConnectionError"]

\* what in_waiting or read raise on a link that is open but no longer usable: the
\* transport's own exception, which update() does not catch
ReadErrors == {"SerialException", "OSError"}

DefaultChannels == [i \in 1..NumChannels |-> DefaultChannel]

\* __init__, lines 44-51
Fresh ==
    /\ input_buffer = <<>>
    /\ channels = DefaultChannels
    /\ link_stats = None
    /\ raised = "none"
    /\ serial = [is_open |-> TRUE, usable |-> TRUE]
    /\ op = Called("__init__", FALSE, TRUE)
    /\ tx = <<>>
    /\ synced = FALSE
    /\ received = <<>>
    /\ log = <<>>
    /\ mark = 0

Init ==
    /\ Fresh
    /\ repeat = <<>>
    /\ headPos = 0
    /\ wire \in Streams

\* update() when `n` bytes are waiting in the port: lines 175-176 reopen a link
\* that is not open, lines 179-180 read, lines 183-202 run the loop
Deliver(n) ==
    \E c \in {IF serial.is_open THEN [is_open |-> TRUE, err |-> "none"]
              ELSE connect(serial.usable)} :
        IF c.err # "none"
        THEN /\ raised' = c.err
             /\ op' = Called("update", TRUE, FALSE)
             /\ UNCHANGED <<input_buffer, channels, link_stats, serial, tx, wire, repeat,
                            headPos, synced, received, log, mark>>
        ELSE IF ~serial.usable
        THEN /\ raised' \in ReadErrors
             /\ op' = Called("update", TRUE, FALSE)
             /\ UNCHANGED <<input_buffer, channels, link_stats, serial, tx, wire, repeat,
                            headPos, synced, received, log, mark>>
        ELSE \E chunk \in {SubSeq(wire, 1, n)} :
             \E r \in {update(input_buffer, channels, link_stats, chunk)} :
                /\ input_buffer' = r.buf
                /\ channels' = r.channels
                /\ link_stats' = r.link_stats
                /\ raised' = r.err
                /\ serial' = [serial EXCEPT !.is_open = TRUE]
                /\ op' = Called("update", FALSE, ~serial.is_open)
                /\ wire' = SubSeq(wire, n + 1, Len(wire))
                /\ received' = received \o chunk
                /\ log' = log \o r.steps
                /\ mark' = Len(log)
                /\ UNCHANGED <<tx, repeat, headPos, synced>>

Update == \E n \in 0..Len(wire) : Deliver(n)

Next == Update

Spec == Init /\ [][Next]_vars

(* Channel conversion: one full RC frame, read in one update() *)

ChannelInit ==
    /\ Fresh
    /\ repeat = <<>>
    /\ headPos = 0
    /\ \/ \E raw \in 0..ChannelMask : wire = RampFrame(raw)
       \/ \E v \in {0, ChannelMask} : wire = UniformFrame(v)

UpdateAll == Len(wire) > 0 /\ Deliver(Len(wire))

ChannelNext == UpdateAll

ChannelSpec == ChannelInit /\ [][ChannelNext]_vars

(* Telemetry: frames are written, come back over a loopback and are read *)

TxInit ==
    /\ Fresh
    /\ repeat = <<>>
    /\ headPos = 0
    /\ wire = <<>>

\* send_battery_telemetry; struct.pack raises struct.error on a value that does not
\* fit its field, before anything is written; a SerialException of write or flush
\* (the port not open, or not usable) is caught and printed at lines 167-168
SendBattery ==
    /\ Len(tx) < MaxWrites
    /\ \E voltage \in VoltageInputs, current \in CurrentInputs,
          mah \in MahInputs, remaining_percent \in PercentInputs :
          IF ~(/\ FitsH(ScaleTenths(voltage)) /\ FitsH(ScaleTenths(current))
               /\ FitsH(mah) /\ FitsB(remaining_percent))
          THEN /\ tx' = tx
               /\ raised' = "struct.error"
               /\ op' = Called("send_battery_telemetry", FALSE, FALSE)
          ELSE IF serial.is_open /\ serial.usable
          THEN /\ tx' = Append(tx, BatteryFrame(voltage, current, mah, remaining_percent))
               /\ raised' = "none"
               /\ op' = Called("send_battery_telemetry", FALSE, FALSE)
          ELSE /\ tx' = tx
               /\ raised' = "none"
               /\ op' = Called("send_battery_telemetry", TRUE, FALSE)
    /\ UNCHANGED <<input_buffer, channels, link_stats, serial, wire, repeat, headPos,
                   synced, received, log, mark>>

\* the environment returns what was written
Loopback ==
    /\ tx # <<>> /\ wire = <<>> /\ received = <<>>
    /\ wire' = Flatten(tx)
    /\ UNCHANGED <<input_buffer, channels, link_stats, raised, serial, op, tx, repeat,
                   headPos, synced, received, log, mark>>

TxNext == SendBattery \/ Loopback \/ Update

TxSpec == TxInit /\ [][TxNext]_vars

(* An unbounded transmission: noise, then one frame repeated for ever.  Only the *)
(* iterations of the last update() are kept in log; received is not kept.        *)

LiveInit ==
    /\ Fresh
    /\ \E noise \in SeqsUpTo(NoiseBytes, MaxNoise), frame \in LiveFrames :
          /\ repeat = frame
          /\ wire = noise \o frame
          /\ headPos = -Len(noise)

AtBoundary(pos) == pos >= 0 /\ pos % Len(repeat) = 0

\* some iteration extracted a candidate that starts where a frame of the peer starts
\* and the validator accepted it
GenuineIn(steps, pos) ==
    \E i \in DOMAIN steps :
        /\ steps[i].kind = "frame" /\ steps[i].valid
        /\ steps[i].bytes = repeat
        /\ AtBoundary(pos + Len(StepBytes(SubSeq(steps, 1, i - 1))))

\* update() with n >= 1 bytes waiting; the peer keeps sending
UpdateLive ==
    /\ serial.is_open /\ serial.usable
    /\ \E n \in 1..Len(wire) :
        \E rest \in {SubSeq(wire, n + 1, Len(wire))} :
        \E r \in {update(input_buffer, channels, link_stats, SubSeq(wire, 1, n))} :
        \E pos \in {headPos + Len(StepBytes(r.steps))} :
            /\ input_buffer' = r.buf
            /\ channels' = r.channels
            /\ link_stats' = r.link_stats
            /\ raised' = r.err
            /\ wire' = IF Len(rest) < Len(repeat) THEN rest \o repeat ELSE rest
            /\ headPos' = IF pos < 0 THEN pos ELSE pos % Len(repeat)
            /\ synced' = (synced \/ GenuineIn(r.steps, headPos))
            /\ log' = r.steps
            /\ op' = Called("update", FALSE, FALSE)
            /\ UNCHANGED <<serial, tx, repeat, received, mark>>

LiveNext == UpdateLive

\* the caller calls update() again and again
LiveSpec == LiveInit /\ [][LiveNext]_vars /\ WF_vars(UpdateLive)

(* The life of the link: the caller closes it, the port fails and recovers, and *)
(* the caller goes on calling update() and send_battery_telemetry().           *)

LinkStreams ==
    {BuildFrame(LINK_STATISTICS, <<50, 60, 90, 10>>),
     <<0>> \o BuildFrame(153, <<1>>)}

LinkInit ==
    /\ Fresh
    /\ repeat = <<>>
    /\ headPos = 0
    /\ wire \in LinkStreams

\* close(), lines 212-215
Close ==
    /\ serial' = [serial EXCEPT !.is_open = FALSE]
    /\ raised' = "none"
    /\ op' = Called("close", FALSE, FALSE)
    /\ UNCHANGED <<input_buffer, channels, link_stats, tx, wire, repeat, headPos,
                   synced, received, log, mark>>

\* the environment: the port stops working (unplugged, taken away)
PortFails ==
    /\ serial.usable
    /\ serial' = [serial EXCEPT !.usable = FALSE]
    /\ op' = Called("environment", FALSE, FALSE)
    /\ UNCHANGED <<input_buffer, channels, link_stats, raised, tx, wire, repeat,
                   headPos, synced, received, log, mark>>

\* the environment: the port works again
PortRecovers ==
    /\ ~serial.usable
    /\ serial' = [serial EXCEPT !.usable = TRUE]
    /\ op' = Called("environment", FALSE, FALSE)
    /\ UNCHANGED <<input_buffer, channels, link_stats, raised, tx, wire, repeat,
                   headPos, synced, received, log, mark>>

LinkNext == Close \/ PortFails \/ PortRecovers \/ Update \/ SendBattery

LinkSpec == LinkInit /\ [][LinkNext]_vars

(* A line that flips one bit of one frame: the frame arrives whole, with one bit of *)
(* its TYPE, payload or CRC byte inverted, and is read in one update().           *)

\* bit k of byte j (from 1) inverted
FlipBit(frame, j, k) == [frame EXCEPT ![j] = BitXor(@, Pow2(k))]

FlipFrames ==
    {BuildFrame(LINK_STATISTICS, <<50, 60, 90, 10>>),
     BuildFrame(RC_CHANNELS_PACKED, Fill(0, 22)),
     BuildFrame(RC_CHANNELS_PACKED, Fill(255, 22)),
     BuildFrame(BATTERY_SENSOR, <<0, 118, 0, 0, 0, 0, 100>>),
     BuildFrame(153, <<1>>),
     LongFrame}

FlipInit ==
    /\ Fresh
    /\ repeat = <<>>
    /\ headPos = 0
    /\ \E f \in FlipFrames : \E j \in 3..Len(f), k \in 0..7 : wire = FlipBit(f, j, k)

FlipNext == UpdateAll

FlipSpec == FlipInit /\ [][FlipNext]_vars

----------------------------------------------------------------------------
(* What the claims speak about *)

\* the iterations of the last update()
LastSteps == SubSeq(log, mark + 1, Len(log))

FrameType(frame) == frame[3]
FramePayload(frame) == SubSeq(frame, 4, Len(frame) - 1)
FrameCrc(frame) == frame[Len(frame)]

\* the frame format of the protocol: sync, LENGTH = total - 2, total in 4..64
WellFormed(frame) ==
    /\ Len(frame) >= MinFrameLen /\ Len(frame) <= MaxFrameLen
    /\ frame[1] = CRSF_SYNC
    /\ frame[2] = Len(frame) - 2

CrcMatches(frame) == FrameCrc(frame) = crc8_data(<<FrameType(frame)>> \o FramePayload(frame))

IsValidFrame(frame) == WellFormed(frame) /\ CrcMatches(frame)

\* the frames a stream of back-to-back valid frames is made of (<<>> if it is not one)
RECURSIVE SplitFrames(_)
SplitFrames(s) ==
    IF Len(s) < MinFrameLen \/ Len(s) < s[2] + 2 THEN <<>>
    ELSE <<SubSeq(s, 1, s[2] + 2)>> \o SplitFrames(SubSeq(s, s[2] + 3, Len(s)))

IsValidStream(s) ==
    LET fs == SplitFrames(s)
    IN  /\ s # <<>>
        /\ Flatten(fs) = s
        /\ \A i \in DOMAIN fs : IsValidFrame(fs[i])

\* the candidate frames extracted so far, in order
ExtractedFrames == SelectSeq(log, LAMBDA st : st.kind = "frame")

\* update() on a freshly constructed receiver that reads all of s at once
OneShot(s) == update(<<>>, DefaultChannels, None, s)

\* C1: once a stream of back-to-back valid frames has been read, in whatever
\* chunks, the channels, link_stats and the residual buffer are those of reading it
\* in a single update(), and every frame has been extracted exactly once
C1_ChunkingIndependence ==
    (wire = <<>> /\ IsValidStream(received)) =>
        /\ channels = OneShot(received).channels
        /\ link_stats = OneShot(received).link_stats
        /\ input_buffer = OneShot(received).buf
        /\ [i \in DOMAIN ExtractedFrames |-> ExtractedFrames[i].bytes] = SplitFrames(received)

\* the number of leading bytes of s that are not the sync byte
RECURSIVE GarbageLen(_)
GarbageLen(s) ==
    IF s = <<>> \/ Head(s) = CRSF_SYNC THEN 0 ELSE 1 + GarbageLen(Tail(s))

GarbageThenFrame(s) ==
    /\ GarbageLen(s) > 0
    /\ IsValidFrame(SubSeq(s, GarbageLen(s) + 1, Len(s)))

\* C2: a prefix of non-sync bytes followed by one valid frame: each prefix byte is
\* dropped singly, the frame is extracted whole and handled once, and the state and
\* the residual buffer are those of reading the frame alone
C2_ResyncAfterGarbage ==
    (wire = <<>> /\ GarbageThenFrame(received)) =>
        LET k == GarbageLen(received)
            frame == SubSeq(received, k + 1, Len(received))
            alone == OneShot(frame)
        IN  /\ Len(log) = k + 1
            /\ \A i \in 1..k : log[i].kind = "nosync" /\ log[i].bytes = <<received[i]>>
            /\ log[k + 1].kind = "frame" /\ log[k + 1].bytes = frame /\ log[k + 1].valid
            /\ channels = alone.channels
            /\ link_stats = alone.link_stats
            /\ input_buffer = alone.buf

C2_Witness ==
    /\ wire = <<>>
    /\ received = <<0, 0>> \o BuildFrame(LINK_STATISTICS, <<50, 60, 90, 10>>)
    /\ Len(log) = 3
    /\ link_stats = [rssi1 |-> -50, rssi2 |-> -60, link_quality |-> 90, snr |-> 10]

\* the loop is left with nothing it could parse: at most 2 bytes, or the head of
\* a frame that is not complete yet
AtRest(buf) ==
    \/ Len(buf) <= 2
    \/ /\ buf[1] = CRSF_SYNC
       /\ buf[2] + 2 >= MinFrameLen /\ buf[2] + 2 <= MaxFrameLen
       /\ Len(buf) < buf[2] + 2

\* a candidate frame whose last byte is not the CRC8 of frame[2:-1]
BadCrcStep(st) == st.kind = "frame" /\ ~CrcMatches(st.bytes)

\* C4: a candidate whose CRC byte does not match leaves the buffer head with its
\* LENGTH+2 bytes, changes neither channels nor link_stats, raises nothing, and the
\* loop goes on with the bytes that follow
C4_BadCrcDiscarded ==
    /\ StepBytes(log) \o input_buffer = received
    /\ \A i \in DOMAIN log : BadCrcStep(log[i]) =>
          /\ Len(log[i].bytes) = log[i].bytes[2] + 2
          /\ log[i].ch_post = log[i].ch_pre
          /\ log[i].ls_post = log[i].ls_pre
          /\ log[i].err = "none"
          /\ (i > mark => (i < Len(log) \/ AtRest(log[i].rest)))
          /\ (i = Len(log) => (raised = "none" /\ channels = log[i].ch_pre
                               /\ link_stats = log[i].ls_pre))

\* a bad-CRC candidate and, in the same update(), a valid frame decoded after it
C4_Witness ==
    \E i \in DOMAIN log :
        /\ i > mark /\ i < Len(log)
        /\ BadCrcStep(log[i])
        /\ log[i + 1].kind = "frame" /\ log[i + 1].valid
        /\ log[i + 1].ls_post # log[i].ls_post

\* the 11-bit field i (from 0) of a payload whose absent bytes count as zero
PayloadByte(payload, j) == IF j + 1 <= Len(payload) THEN payload[j + 1] ELSE 0

PayloadField(payload, i) ==
    LET at == (i * 11) \div 8
        word == PayloadByte(payload, at) + 256 * PayloadByte(payload, at + 1)
                + 65536 * PayloadByte(payload, at + 2)
    IN  (word \div Pow2((i * 11) % 8)) % 2048

ValidStepOfType(st, type) ==
    st.kind = "frame" /\ CrcMatches(st.bytes) /\ FrameType(st.bytes) = type

\* C5: every CRC-valid RC_CHANNELS_PACKED frame, whatever its length, is decoded
\* without an error; all 16 channels are assigned from the payload alone, bytes
\* missing at its tail counting as zero
C5_ShortPayloadDecodes ==
    \A i \in DOMAIN log : ValidStepOfType(log[i], RC_CHANNELS_PACKED) =>
        /\ log[i].err = "none"
        /\ \A c \in 1..NumChannels :
              log[i].ch_post[c]
                  = ToMicroseconds(PayloadField(FramePayload(log[i].bytes), c - 1))

\* C6: channels change only in a step that handles a valid RC_CHANNELS_PACKED frame,
\* link_stats only in one that handles a valid LINK_STATISTICS frame; a valid frame
\* of any other type is consumed with no change and no error; the channel mapping
\* always has the keys 1..16
C6_TypeDecidesMutation ==
    /\ DOMAIN channels = 1..NumChannels
    /\ StepBytes(log) \o input_buffer = received
    /\ channels = IF log = <<>> THEN DefaultChannels ELSE log[Len(log)].ch_post
    /\ link_stats = IF log = <<>> THEN None ELSE log[Len(log)].ls_post
    /\ \A i \in DOMAIN log :
          /\ log[i].ch_pre = IF i = 1 THEN DefaultChannels ELSE log[i - 1].ch_post
          /\ log[i].ls_pre = IF i = 1 THEN None ELSE log[i - 1].ls_post
          /\ DOMAIN log[i].ch_post = 1..NumChannels
          /\ (log[i].ch_post # log[i].ch_pre
                => ValidStepOfType(log[i], RC_CHANNELS_PACKED))
          /\ (log[i].ls_post # log[i].ls_pre
                => ValidStepOfType(log[i], LINK_STATISTICS))
          /\ (/\ log[i].kind = "frame" /\ CrcMatches(log[i].bytes)
              /\ FrameType(log[i].bytes) \notin {RC_CHANNELS_PACKED, LINK_STATISTICS})
                => /\ log[i].ch_post = log[i].ch_pre
                   /\ log[i].ls_post = log[i].ls_pre
                   /\ log[i].err = "none"
                   /\ Len(log[i].bytes) = log[i].bytes[2] + 2

\* a valid frame of a type that is not decoded has been consumed after link_stats
\* was set, and link_stats still holds what it held
C6_Witness ==
    \E i \in DOMAIN log :
        /\ ValidStepOfType(log[i], 153)
        /\ log[i].ls_pre # None
        /\ i = Len(log) /\ link_stats = log[i].ls_pre
        /\ input_buffer = <<>> /\ wire = <<>>

\* a valid RC_CHANNELS_PACKED frame with the full 22 payload bytes
FullRcStep(st) ==
    ValidStepOfType(st, RC_CHANNELS_PACKED) /\ Len(FramePayload(st.bytes)) = 22

\* C7 as stated: the stored value is the integer nearest to (62*raw + 88100)/100
C7_RoundsToNearest ==
    \A i \in DOMAIN log : FullRcStep(log[i]) =>
        \A c \in 1..NumChannels :
            LET exact == 62 * PayloadField(FramePayload(log[i].bytes), c - 1) + 88100
            IN  /\ 100 * log[i].ch_post[c] - 50 <= exact
                /\ exact <= 100 * log[i].ch_post[c] + 50

\* C7 as amended: the stored value is (62*raw + 88100)/100 truncated, for every raw
\* in 0..2047
C7_Truncates ==
    \A i \in DOMAIN log : FullRcStep(log[i]) =>
        /\ log[i].err = "none"
        /\ (i = Len(log) => channels = log[i].ch_post)
        /\ \A c \in 1..NumChannels :
              LET exact == 62 * PayloadField(FramePayload(log[i].bytes), c - 1) + 88100
              IN  /\ 100 * log[i].ch_post[c] <= exact
                  /\ exact < 100 * (log[i].ch_post[c] + 1)

\* raw = 1 is 881.62 microseconds: stored as 881
C7_Witness ==
    /\ log # <<>> /\ FullRcStep(log[1])
    /\ PayloadField(FramePayload(log[1].bytes), 0) = 1
    /\ channels[1] = 881
    /\ PayloadField(FramePayload(log[1].bytes), 15) = 1936

\* a valid LINK_STATISTICS frame with at least 4 payload bytes
FullLsStep(st) ==
    ValidStepOfType(st, LINK_STATISTICS) /\ Len(FramePayload(st.bytes)) >= 4

LinkStatsOf(b3, b4, b5, b6) ==
    [rssi1 |-> 0 - b3, rssi2 |-> 0 - b4, link_quality |-> b5,
     snr |-> IF b6 < 128 THEN b6 ELSE b6 - 256]

LinkStatsDecoded(st) ==
    /\ st.err = "none"
    /\ st.ls_post = LinkStatsOf(st.bytes[4], st.bytes[5], st.bytes[6], st.bytes[7])
    /\ (FramePayload(st.bytes) = <<50, 60, 90, 10>>
          => st.ls_post = [rssi1 |-> -50, rssi2 |-> -60, link_quality |-> 90, snr |-> 10])
    /\ (st.bytes[7] = 200 => st.ls_post.snr = -56)

\* C8 as stated: the four fields are decoded from frame offsets 3..6 and
\* link_quality is a percentage in 0..100
C8_LinkStatsInPercentRange ==
    \A i \in DOMAIN log : FullLsStep(log[i]) =>
        /\ LinkStatsDecoded(log[i])
        /\ log[i].ls_post.link_quality \in 0..100

\* C8 as amended: the four fields are decoded from frame offsets 3..6; link_quality
\* is the byte as received, in 0..255, and is in 0..100 only if the byte is
C8_LinkStatsDecoded ==
    /\ \A i \in DOMAIN log : FullLsStep(log[i]) =>
          /\ LinkStatsDecoded(log[i])
          /\ log[i].ls_post.link_quality \in 0..255
          /\ (log[i].ls_post.link_quality <= 100 <=> log[i].bytes[6] <= 100)
    /\ (log # <<>> /\ FullLsStep(log[Len(log)])) => link_stats = log[Len(log)].ls_post

C8_Witness ==
    /\ log # <<>> /\ FullLsStep(log[Len(log)])
    /\ link_stats = [rssi1 |-> -50, rssi2 |-> -60, link_quality |-> 255, snr |-> -56]

\* C9: link_stats is absent, or all four of its fields are the first four payload
\* bytes of one valid LINK_STATISTICS frame that has been processed
C9_LinkStatsFromOnePayload ==
    \/ link_stats = None
    \/ \E i \in DOMAIN log :
          /\ FullLsStep(log[i])
          /\ link_stats = LinkStatsOf(FramePayload(log[i].bytes)[1], FramePayload(log[i].bytes)[2],
                                      FramePayload(log[i].bytes)[3], FramePayload(log[i].bytes)[4])

\* C10: every frame send_battery_telemetry writes is 0xC8, LENGTH = 9 = payload + 2
\* = total - 2, 0x08, 7 payload bytes and their CRC; the validator accepts it; and
\* once the bytes of all written frames have come back and been read, each frame has
\* been extracted as one candidate, nothing was dropped and the buffer is empty
C10_BatteryFrameRoundTrip ==
    /\ \A k \in DOMAIN tx :
          /\ Len(tx[k]) = 11
          /\ tx[k][1] = CRSF_SYNC
          /\ tx[k][2] = Len(FramePayload(tx[k])) + 2 /\ tx[k][2] = Len(tx[k]) - 2
          /\ tx[k][3] = BATTERY_SENSOR
          /\ Len(FramePayload(tx[k])) = 7
          /\ \A j \in DOMAIN tx[k] : tx[k][j] \in 0..255
          /\ FrameCrc(tx[k]) = crc8_data(<<BATTERY_SENSOR>> \o FramePayload(tx[k]))
          /\ validate_frame(tx[k])
    /\ (received # <<>> /\ received = Flatten(tx) /\ wire = <<>>) =>
          /\ input_buffer = <<>>
          /\ Len(log) = Len(tx)
          /\ \A k \in DOMAIN log :
                log[k].kind = "frame" /\ log[k].bytes = tx[k] /\ log[k].valid
                /\ log[k].err = "none"

C10_Witness ==
    /\ tx # <<>> /\ tx[1] = BatteryFrame(655359, 655359, 65535, 255)
    /\ received = Flatten(tx) /\ wire = <<>>
    /\ input_buffer = <<>> /\ Len(log) = Len(tx) /\ mark > 0

\* the repeated frame holds the sync value only as its first byte
SyncFree(frame) == \A j \in 2..Len(frame) : frame[j] # CRSF_SYNC

\* C3: whatever the noise and the frame repeated after it, repeated update() calls
\* eventually extract and validate a frame of the peer
C3_EventuallySynced == <>synced

\* the streams that do lock: if the frames hold the sync value only as their first
\* byte, then whatever the noise, repeated update() calls eventually extract and
\* validate a frame of the peer
SyncFreeStreamsLock == (~synced /\ SyncFree(repeat)) ~> synced

\* a frame of the peer is validated in an update() that first discarded a false
\* candidate that began in the noise
SyncFreeLocked ==
    /\ synced /\ SyncFree(repeat)
    /\ \E i \in DOMAIN log : log[i].kind = "frame" /\ ~log[i].valid /\ i < Len(log)
    /\ log[Len(log)].kind = "frame" /\ log[Len(log)].bytes = repeat

----------------------------------------------------------------------------
(* Telemetry encoding of the example call *)

\* the frame section 8 of the specification lists for (11.8, 0.0, 0, 100)
ExampleBatteryFrame ==
    <<200, 9, 8, 0, 118, 0, 0, 0, 0, 100, crc8_data(<<8, 0, 118, 0, 0, 0, 0, 100>>)>>

\* send_battery_telemetry(11.8, 0.0, 0, 100) has written its frame
ExampleWritten(k) == k \in DOMAIN tx /\ tx[k] = BatteryFrame(1180, 0, 0, 100)

\* C11 as stated: the frame written for (11.8, 0.0, 0, 100) is 0xC8, 9, 0x08,
\* 0x00, 0x76, 0x00, 0x00, 0x00, 0x00, 100 and the CRC8 of type and payload, and it
\* is 10 bytes long
C11_TenByteFrame ==
    \A k \in DOMAIN tx : ExampleWritten(k) =>
        /\ tx[k] = ExampleBatteryFrame
        /\ Len(tx[k]) = 10

\* C11 as amended: the frame written for (11.8, 0.0, 0, 100) is 0xC8, 9, 0x08,
\* 0x00, 0x76, 0x00, 0x00, 0x00, 0x00, 100 and the CRC8 of type and payload: 11
\* bytes, of which LENGTH = 9 counts all but the first two
C11_ElevenByteFrame ==
    \A k \in DOMAIN tx : ExampleWritten(k) =>
        /\ tx[k] = ExampleBatteryFrame
        /\ Len(tx[k]) = 11
        /\ tx[k][5] = ScaleTenths(1180) /\ tx[k][5] = 118
        /\ tx[k][2] = Len(tx[k]) - 2

C11_Witness ==
    /\ ExampleWritten(1)
    /\ tx[1] = <<200, 9, 8, 0, 118, 0, 0, 0, 0, 100, 251>>
    /\ raised = "none"

----------------------------------------------------------------------------
(* Corruption *)

\* inverting one bit of the TYPE, a payload or the CRC byte of b gives a frame whose
\* CRC matches: b is such a frame with one bit inverted
IsSingleBitCorruption(b) ==
    \E j \in 3..Len(b), k \in 0..7 : CrcMatches(FlipBit(b, j, k))

\* C12: a candidate that is a CRC-valid frame with one bit of its TYPE, payload or
\* CRC byte inverted is rejected by the validator and changes neither channels nor
\* link_stats
C12_SingleBitFlipRejected ==
    \A i \in DOMAIN log :
        (log[i].kind = "frame" /\ IsSingleBitCorruption(log[i].bytes)) =>
            /\ ~log[i].valid
            /\ log[i].ch_post = log[i].ch_pre
            /\ log[i].ls_post = log[i].ls_pre
            /\ log[i].err = "none"

\* a full RC frame with one bit wrong has been read and the channels are untouched
C12_Witness ==
    /\ log # <<>> /\ log[1].kind = "frame"
    /\ FrameType(log[1].bytes) = RC_CHANNELS_PACKED /\ Len(log[1].bytes) = 26
    /\ IsSingleBitCorruption(log[1].bytes)
    /\ ~log[1].valid
    /\ channels = DefaultChannels /\ input_buffer = <<>>

----------------------------------------------------------------------------
(* The CRC8 engine against the DVB-S2 algorithm as published: initial value 0, *)
(* polynomial 0xD5, the accumulator masked to 8 bits in every iteration.       *)

RefShift(crc) ==
    IF BitAnd(crc, 128) # 0 THEN BitAnd(BitXor(crc * 2, 213), 255)
    ELSE BitAnd(crc * 2, 255)

\* the accumulator after n iterations, masked in each
RECURSIVE RefIterate(_, _)
RefIterate(crc, n) == IF n = 0 THEN crc ELSE RefShift(RefIterate(crc, n - 1))

\* the 8 iterations for each value crc ^ a can take
RefTable == [x \in 0..255 |-> RefIterate(x, 8)]

RefByte(crc, a) == RefTable[BitXor(crc, a)]

RECURSIVE RefRange(_, _, _, _)
RefRange(crc, data, lo, hi) ==
    IF lo > hi THEN crc
    ELSE IF lo = hi THEN RefByte(crc, data[lo])
    ELSE Eager(RefRange(crc, data, lo, (lo + hi) \div 2),
               LAMBDA c : RefRange(c, data, ((lo + hi) \div 2) + 1, hi))

RefCrc8(data) == Eager(data, LAMBDA d : RefRange(0, d, 1, Len(d)))

\* the byte sequences a state holds: what was read, what is buffered, every
\* candidate taken from the buffer and its CRC input, every frame written
SequencesAtHand ==
    {received, input_buffer}
    \cup {log[i].bytes : i \in DOMAIN log}
    \cup {Slice(log[i].bytes, 2, Len(log[i].bytes) - 1) : i \in DOMAIN log}
    \cup {tx[k] : k \in DOMAIN tx}

AgreesWithReference(data) ==
    \A c \in {crc8_data(data)} : c = RefCrc8(data) /\ c \in 0..255

\* C14: on every byte sequence the CRC8 as implemented, masked once per byte,
\* returns what the reference algorithm returns, a value in 0..255; on the empty
\* sequence it returns 0; and the step for one byte agrees with the reference for
\* each of the 256 values of accumulator XOR byte
C14_CrcMatchesReference ==
    /\ crc8_data(<<>>) = 0
    /\ \A x \in 0..255 : crc8_dvb_s2(0, x) = RefByte(0, x) /\ crc8_dvb_s2(x, 0) = RefByte(x, 0)
    /\ \A data \in SequencesAtHand : AgreesWithReference(data)

\* a full RC frame of 0xFF bytes has been validated: the accumulator overflowed 8
\* bits in the shifts and the CRC is the reference's
C14_Witness ==
    \E i \in DOMAIN log :
        /\ log[i].valid /\ Len(log[i].bytes) = 26 /\ log[i].bytes[4] = 255
        /\ FrameCrc(log[i].bytes) = RefCrc8(Slice(log[i].bytes, 2, 25))
        /\ FrameCrc(log[i].bytes) # 0
        /\ Crc8Iterate(255, 8) > 255

----------------------------------------------------------------------------
(* Bit-unpacking of a full RC frame *)

\* C15: in a full RC_CHANNELS_PACKED frame the value stored for channel i+1 is that
\* of the 11-bit field at payload bits 11*i .. 11*i+10 and of nothing else, the CRC
\* byte included; sixteen fields of 0 give 881 everywhere, sixteen of 2047 give 2150
C15_FieldAloneDecides ==
    \A i \in DOMAIN log : FullRcStep(log[i]) =>
        \A payload \in {FramePayload(log[i].bytes)} :
            /\ log[i].err = "none"
            /\ \A c \in 1..NumChannels :
                  /\ log[i].ch_post[c] = ToMicroseconds(PayloadField(payload, c - 1))
                  /\ (payload = Fill(0, 22) => log[i].ch_post[c] = 881)
                  /\ (payload = Fill(255, 22) => log[i].ch_post[c] = 2150)

\* sixteen fields of 2047 under a CRC byte that is not zero: every channel is 2150
C15_Witness ==
    /\ log # <<>> /\ FullRcStep(log[1])
    /\ FramePayload(log[1].bytes) = Fill(255, 22)
    /\ FrameCrc(log[1].bytes) # 0
    /\ channels = [c \in 1..NumChannels |-> 2150]

----------------------------------------------------------------------------
(* The synchronizer's handling of a sync byte with a length out of range, and *)
(* its buffer                                                                  *)

\* iteration i dropped a sync byte whose length byte was refused
SpuriousSyncStep(i) == i \in DOMAIN log /\ log[i].kind = "badlen"

\* the valid frame that the bytes read end in, starting at offset k or later (<<>>
\* if there is none)
FramesEndingAfter(k) ==
    {SubSeq(received, j + 1, Len(received)) : j \in k..Len(received)}

ValidFramesEndingAfter(k) == {f \in FramesEndingAfter(k) : IsValidFrame(f)}

\* C16: a sync byte whose length byte gives LENGTH+2 outside 4..64 is dropped alone
\* and the loop goes on at the next byte; a valid frame that starts right after it,
\* or anywhere after it, is extracted and accepted
C16_FrameAfterSpuriousSyncDecoded ==
    /\ \A i \in DOMAIN log : SpuriousSyncStep(i) =>
          /\ log[i].bytes = <<CRSF_SYNC>>
          /\ LengthRejected(expected_len_of(Head(log[i].rest)))
          /\ log[i].ch_post = log[i].ch_pre /\ log[i].ls_post = log[i].ls_pre
    /\ (wire = <<>> /\ SpuriousSyncStep(1)) =>
          \A f \in ValidFramesEndingAfter(1) :
              /\ log[Len(log)].kind = "frame"
              /\ log[Len(log)].bytes = f
              /\ log[Len(log)].valid

\* the part of C16 that holds: the sync byte is dropped alone, and a valid frame
\* that starts at the very next byte is extracted and accepted
SpuriousSyncThenFrame ==
    /\ \A i \in DOMAIN log : SpuriousSyncStep(i) =>
          /\ log[i].bytes = <<CRSF_SYNC>>
          /\ LengthRejected(expected_len_of(Head(log[i].rest)))
    /\ (wire = <<>> /\ SpuriousSyncStep(1) /\ IsValidFrame(Tail(received))) =>
          /\ Len(log) = 2
          /\ log[2].kind = "frame" /\ log[2].bytes = Tail(received) /\ log[2].valid

\* C17: what has left the buffer head, in the order it left, followed by what the
\* buffer holds is what was read: every byte read is buffered, or was dropped
\* singly, or lies in exactly one extracted candidate
C17_BufferDiscipline ==
    /\ StepBytes(log) \o input_buffer = received
    /\ \A i \in DOMAIN log :
          /\ (log[i].kind \in {"nosync", "badlen"} => Len(log[i].bytes) = 1)
          /\ (log[i].kind = "frame" =>
                 Len(log[i].bytes) = log[i].bytes[2] + 2 /\ Len(log[i].bytes) >= MinFrameLen)
          /\ log[i].kind \in {"nosync", "badlen", "frame"}
          /\ \A k \in {Len(StepBytes(SubSeq(log, 1, i)))} :
                /\ k + Len(log[i].rest) <= Len(received)
                /\ log[i].rest = SubSeq(received, k + 1, k + Len(log[i].rest))

\* over several update() calls bytes were dropped singly, a candidate was extracted
\* and two bytes are still buffered
C17_Witness ==
    /\ \E i \in DOMAIN log : log[i].kind = "nosync"
    /\ \E i \in DOMAIN log : log[i].kind = "badlen"
    /\ \E i \in DOMAIN log : log[i].kind = "frame"
    /\ Len(input_buffer) = 2
    /\ mark > 0

\* C18: when update() has returned, the buffer holds at most 2 bytes or the head of
\* a frame still incomplete (sync, a length in range, fewer than LENGTH+2 bytes):
\* never more than 63 bytes
C18_BufferBoundedAtReturn ==
    (raised = "none") =>
        /\ AtRest(input_buffer)
        /\ Len(input_buffer) <= MaxFrameLen - 1

\* all but the last byte of a 64-byte frame are waiting
C18_Witness ==
    /\ raised = "none"
    /\ Len(input_buffer) = MaxFrameLen - 1
    /\ input_buffer = SubSeq(LongFrame, 1, MaxFrameLen - 1)
    /\ received # <<>>

\* C19: in one update() every iteration of the loop shortens the buffer, by 1 byte
\* on a drop and by LENGTH+2 >= 4 bytes on an extraction, so the loop runs no more
\* iterations than bytes were buffered when it started
C19_LoopShortensBuffer ==
    /\ Len(LastSteps) <= Len(StepBytes(LastSteps)) + Len(input_buffer)
    /\ \A i \in (mark + 1)..Len(log) :
          /\ Len(log[i].bytes) =
                IF log[i].kind = "frame" THEN log[i].bytes[2] + 2 ELSE 1
          /\ Len(log[i].bytes) >= 1
          /\ (log[i].kind = "frame" => Len(log[i].bytes) >= 4)
          /\ Len(log[i].rest) =
                Len(StepBytes(SubSeq(log, i + 1, Len(log)))) + Len(input_buffer)
          /\ (i > mark + 1 => Len(log[i].rest) = Len(log[i - 1].rest) - Len(log[i].bytes))

\* one update() dropped a spurious sync byte and a noise byte, extracted a frame and
\* emptied the buffer
C19_Witness ==
    /\ Len(LastSteps) = 3
    /\ \E i \in (mark + 1)..Len(log) : log[i].kind = "frame"
    /\ \E i \in (mark + 1)..Len(log) : log[i].kind = "badlen"
    /\ \E i \in (mark + 1)..Len(log) : log[i].kind = "nosync"
    /\ input_buffer = <<>>

----------------------------------------------------------------------------
(* Transport failures and reconnection *)

\* C13 as stated: a call in which the transport failed raises a connection error to
\* its caller, and neither update() nor send_battery_telemetry() reopens a link
\* that is not open
C13_FailuresSurfacedNoAutoReconnect ==
    [][/\ (op'.failed => raised' = "ConnectionError")
       /\ ((~serial.is_open /\ op'.name \in {"update", "send_battery_telemetry"})
              => ~serial'.is_open)]_vars

\* C13 as amended: update() on a link that is not open reopens it itself; if that
\* fails it raises ConnectionError and the link stays closed.  A failure to read on
\* an open link leaves update() as the transport's own exception.  A failure to
\* write in send_battery_telemetry() is caught: nothing is raised, nothing is
\* written and the link is not reopened.  close() leaves the link closed.
C13_UpdateReconnectsWriteFailureSwallowed ==
    [][/\ (op'.name = "update" /\ ~serial.is_open /\ serial.usable)
              => (serial'.is_open /\ op'.connected /\ ~op'.failed
                  /\ raised' \in {"none", "IndexError"})
       /\ (op'.name = "update" /\ ~serial.is_open /\ ~serial.usable)
              => (~serial'.is_open /\ op'.failed /\ raised' = "ConnectionError")
       /\ (op'.name = "update" /\ serial.is_open /\ ~serial.usable)
              => (op'.failed /\ raised' \in ReadErrors /\ raised' # "ConnectionError"
                  /\ input_buffer' = input_buffer /\ serial' = serial)
       /\ (op'.name = "send_battery_telemetry" /\ (~serial.is_open \/ ~serial.usable))
              => (raised' \in {"none", "struct.error"} /\ tx' = tx /\ serial' = serial
                  /\ (raised' = "none" => op'.failed))
       /\ (op'.name = "close") => (~serial'.is_open /\ raised' = "none")]_vars

\* after a close(), update() has reopened the link and decoded a frame
C13_Witness ==
    /\ op.name = "update" /\ op.connected /\ ~op.failed
    /\ serial.is_open
    /\ link_stats = [rssi1 |-> -50, rssi2 |-> -60, link_quality |-> 90, snr |-> 10]

====
